---- MODULE Spec2Model ----
(***************************************************************************)
(* The image-layer service of the registry (registry/images.py) and its    *)
(* diff worker (scripts/diff-worker.py) as a state machine over the object *)
(* store.  Every store call is atomic (put_content is an atomic replace,   *)
(* stream_write shows the blob only when it completes).                    *)
(*                                                                         *)
(* Spec          : the handlers run one request at a time (each action is   *)
(*                 one whole handler).                                     *)
(* ConcSpec      : PUT json, PUT layer and PUT checksum requests for one   *)
(*                 image in concurrent workers, one store access a step.   *)
(* RaceSpec      : concurrent PUT layer requests alone.                    *)
(* RoundTripSpec : one client's upload and fetch after earlier requests.   *)
(***************************************************************************)
EXTENDS Naturals, Sequences, FiniteSets

\* ------------------------------------------------------------------ bounds
NumImages == 2
NumSessions == 2
MaxRequests == 4
MaxAncestry == 3
NumProcs == 2
MaxConcRequests == 3
MaxPreamble == 2
MaxDiffRequests == 5
MaxJobRequests == 4
MaxLiveUploads == 2
MaxBacklog == 3
NumWorkers == 2
MaxPieces == 4
MaxInventory == 2

Images == 1..NumImages
Sessions == 1..NumSessions
Procs == 1..NumProcs
Workers == 1..NumWorkers

VARIABLES
    json,        \* store: images/<id>/json      (NoJson when the path has no value)
    layer,       \* store: images/<id>/layer     (NoLayer when absent)
    checksum,    \* store: images/<id>/_checksum (<<>> when absent)
    ancestry,    \* store: images/<id>/ancestry  (<<>> when absent)
    files,       \* store: images/<id>/_files    (<<>> when absent, else <<inventory>>)
    diff,        \* store: images/<id>/_diff     (<<>> when absent, else <<diff result>>)
    mark,        \* store: images/<id>/_inprogress exists
    session,     \* flask.session['checksum'] of each client session ({} when unset)
    diff_queue,  \* the "diff-worker" capped collection, oldest first
    req,         \* the last request answered: its handler, image id and session
    resp,        \* the response it was given
    nreq,        \* number of requests taken
    procs,       \* the server's request workers: position and locals of each
    client,      \* the uploading client of RoundTripSpec: position and what it sends
    workers,     \* the diff workers: position and the id each one popped
    lock,        \* the "diff-worker-lock" of each id: the worker it was given to, or 0
    probe        \* a routine run by itself: its input and its result

store == <<json, layer, checksum, ancestry, files, diff, mark>>
vars == <<json, layer, checksum, ancestry, files, diff, mark, session, diff_queue,
          req, resp, nreq, procs, client, workers, lock, probe>>
\* what only the specifications of the workers and of single routines change
aside == <<workers, lock, probe>>

\* ------------------------------------------------------------ request data
\* A request body of PUT json: not JSON at all, JSON that is no object, or an
\* object with an optional id and an optional parent (0: the key is missing).
NoJson == [kind |-> "absent", id |-> 0, parent |-> 0]
Bodies ==
    {[kind |-> "invalid", id |-> 0, parent |-> 0],
     [kind |-> "notdict", id |-> 0, parent |-> 0]}
    \cup [kind : {"obj"}, id : 0..NumImages, parent : 0..NumImages]

\* Layer bytes a client may send: a tar archive and bytes that are no tar.
NoLayer == "none"
Layers == {"tarA", "raw"}
IsTar(x) == x \in {"tarA", "tarB"}

\* A hex digest is modelled by what was hashed: digests of different inputs differ.
NoHex == [alg |-> "none", j |-> NoJson, x |-> NoLayer]
Sha256Hex(j, x) == [alg |-> "sha256", j |-> j, x |-> x]
TarsumHex(j, x) == [alg |-> "tarsum", j |-> j, x |-> x]

\* A checksum string is the sequence of its ':'-separated fields.
sha256_checksum(j, x) == <<"sha256", Sha256Hex(j, x)>>
tarsum_checksum(j, x) == <<"tarsum+sha256", TarsumHex(j, x)>>
WrongChecksum == <<"sha256", NoHex>>
MalformedChecksum == <<"sha256-without-colon">>
NoChecksum == <<>>

\* ------------------------------------------------- layer archive reader
\* tarfile's member types; FifoType has no entry in FILE_TYPES.
RegType == "0"
DirType == "5"
FifoType == "6"
FILE_TYPES_keys == {"0", "5", "1", "2", "3", "4"}
FILE_TYPES(t) ==
    CASE t = "0" -> "f" [] t = "5" -> "d" [] t = "1" -> "l"
      [] t = "2" -> "s" [] t = "3" -> "c" [] t = "4" -> "b"

\* The members of each archive: a name (a sequence of characters), a type and
\* the remaining header fields (size, mtime, mode, uid, gid) as one value.
Member(name, type, meta) == [name |-> name, type |-> type, meta |-> meta]
TarMembers(x) ==
    IF x = "tarA"
    THEN << Member(<<".", "/", "x">>, RegType, "a1"),
            Member(<<".", "/", ".", "w", "h", ".", "y">>, RegType, "a2") >>
    ELSE << Member(<<".", "/", "x">>, RegType, "b1"),
            Member(<<".", "/", "y">>, RegType, "b2"),
            Member(<<".", "/", ".", "w", "h", ".">>, RegType, "b3") >>

startswith(s, p) == Len(s) >= Len(p) /\ SubSeq(s, 1, Len(p)) = p
Whiteout == <<"/", ".", "w", "h", ".">>

\* _serialize_tar_info: <<>> for a suppressed member (None), else <<entry>>
\* with entry = <<path, type, deleted, meta>>.
_serialize_tar_info(m) ==
    LET f1 == IF m.name = <<".">> THEN <<"/">> ELSE m.name
        f2 == IF startswith(f1, <<".", "/">>)
              THEN <<"/">> \o SubSeq(f1, 3, Len(f1)) ELSE f1
        wh == startswith(f2, Whiteout)
        f3 == IF wh THEN <<"/">> \o SubSeq(f2, 6, Len(f2)) ELSE f2
    IN  IF startswith(f3, Whiteout) THEN <<>>
        ELSE << <<f3, FILE_TYPES(m.type), wh, m.meta>> >>

RECURSIVE _read_tarfile(_)
_read_tarfile(ms) ==
    IF ms = <<>> THEN <<>>
    ELSE _serialize_tar_info(Head(ms)) \o _read_tarfile(Tail(ms))

\* _get_image_files_from_fobj raises (tarfile.TarError for bytes that are no
\* tar, KeyError for a member type outside FILE_TYPES) or returns the inventory.
files_from_fobj_raises(x) ==
    \/ ~IsTar(x)
    \/ \E k \in 1..Len(TarMembers(x)) : TarMembers(x)[k].type \notin FILE_TYPES_keys
_get_image_files_from_fobj(x) == _read_tarfile(TarMembers(x))

\* ------------------------------------------------------------- diff engine
\* A python dict is a function from its keys; {} is the function of domain {}.
EmptyMap == [p \in {} |-> <<>>]
Restrict(f, S) == [p \in S |-> f[p]]
Update(f, g) ==
    [p \in DOMAIN f \cup DOMAIN g |-> IF p \in DOMAIN g THEN g[p] ELSE f[p]]

\* _get_file_info_map: path -> the rest of the tuple <<type, deleted, meta>>;
\* of two entries with one path the later one stays.
_get_file_info_map(file_infos) ==
    [p \in {file_infos[k][1] : k \in 1..Len(file_infos)} |->
        LET last == CHOOSE k \in 1..Len(file_infos) :
                        /\ file_infos[k][1] = p
                        /\ \A n \in 1..Len(file_infos) : file_infos[n][1] = p => n <= k
        IN  Tail(file_infos[last])]

\* _get_image_files on the store (fs: files, ly: layer): the cached inventory,
\* or the one read from the stored layer, which is then cached.
_get_image_files(fs, ly, id) ==
    IF fs[id] # <<>> THEN [err |-> "", files |-> fs, inv |-> fs[id][1]]
    ELSE IF ly[id] = NoLayer THEN [err |-> "IOError", files |-> fs, inv |-> <<>>]
    ELSE IF ~IsTar(ly[id]) THEN [err |-> "TarError", files |-> fs, inv |-> <<>>]
    ELSE IF files_from_fobj_raises(ly[id])
         THEN [err |-> "KeyError", files |-> fs, inv |-> <<>>]
    ELSE LET inv == _get_image_files_from_fobj(ly[id])
         IN  [err |-> "", files |-> [fs EXCEPT ![id] = <<inv>>], inv |-> inv]

\* (variant: a pass that classifies the entries and deletes none of them)
diff_ancestor_keeps_top(acc, ancestor_map) ==
    LET top == acc.info_map
        D  == {p \in DOMAIN top : top[p][2]}
        P  == {p \in DOMAIN top \ D : p \in DOMAIN ancestor_map}
        Cr == {p \in P : ancestor_map[p][2]}
    IN  [info_map |-> top,
         deleted  |-> Update(acc.deleted, Restrict(top, D)),
         changed  |-> Update(acc.changed, Restrict(top, P \ Cr)),
         created  |-> Update(acc.created, Restrict(top, Cr))]

\* One pass of the loop over the top layer's entries for one ancestor's map.
diff_ancestor(acc, ancestor_map) ==
    LET top == acc.info_map
        D  == {p \in DOMAIN top : top[p][2]}
        P  == {p \in DOMAIN top \ D : p \in DOMAIN ancestor_map}
        Cr == {p \in P : ancestor_map[p][2]}
        Ch == P \ Cr
    IN  [info_map |-> Restrict(top, DOMAIN top \ (D \cup P)),
         deleted  |-> Update(acc.deleted, Restrict(top, D)),
         changed  |-> Update(acc.changed, Restrict(top, Ch)),
         created  |-> Update(acc.created, Restrict(top, Cr))]

\* (variant: the walk over the ancestry taken from its oldest image)
RECURSIVE diff_walk_oldest_first(_, _, _, _)
diff_walk_oldest_first(ids, fs, ly, acc) ==
    IF ids = <<>> THEN [err |-> "", files |-> fs, acc |-> acc]
    ELSE LET r == _get_image_files(fs, ly, ids[Len(ids)])
         IN  IF r.err # "" THEN [err |-> r.err, files |-> r.files, acc |-> acc]
             ELSE diff_walk_oldest_first(SubSeq(ids, 1, Len(ids) - 1), r.files, ly,
                                         diff_ancestor(acc, _get_file_info_map(r.inv)))

\* The walk over the ancestry, newest ancestor first; every ancestor's
\* inventory is fetched (and cached) through _get_image_files.
RECURSIVE diff_walk(_, _, _, _)
diff_walk(ids, fs, ly, acc) ==
    IF ids = <<>> THEN [err |-> "", files |-> fs, acc |-> acc]
    ELSE LET r == _get_image_files(fs, ly, Head(ids))
         IN  IF r.err # "" THEN [err |-> r.err, files |-> r.files, acc |-> acc]
             ELSE diff_walk(Tail(ids), r.files, ly,
                            diff_ancestor(acc, _get_file_info_map(r.inv)))

\* The element of a one-element set: binds a value that is computed once.
Only(S) == CHOOSE x \in S : TRUE

\* _get_image_diff past its cache check, lines 538-579, on an ancestry blob anc
\* and a store (fs: files, ly: layer): err, the files blobs it leaves, and the
\* diff it computed.
compute_image_diff(anc, fs, ly, image_id) ==
    IF anc = <<>> THEN [err |-> "IOError", files |-> fs, out |-> <<>>]
    ELSE
      LET r == _get_image_files(fs, ly, image_id)
      IN  IF r.err # "" THEN [err |-> r.err, files |-> r.files, out |-> <<>>]
          ELSE
            LET w == diff_walk(Tail(anc), r.files, ly,
                               [info_map |-> _get_file_info_map(r.inv),
                                deleted |-> EmptyMap, changed |-> EmptyMap,
                                created |-> EmptyMap])
                d == [deleted |-> w.acc.deleted, changed |-> w.acc.changed,
                      created |-> Update(w.acc.created, w.acc.info_map)]
            IN  IF w.err # "" THEN [err |-> w.err, files |-> w.files, out |-> <<>>]
                ELSE [err |-> "", files |-> w.files, out |-> <<d>>]

\* _get_image_diff: err, the files and diff blobs it leaves, and its result.
_get_image_diff(image_id) ==
    IF diff[image_id] # <<>>
    THEN [err |-> "", files |-> files, diff |-> diff, out |-> diff[image_id]]
    ELSE Only({[err |-> r.err, files |-> r.files, out |-> r.out,
                diff |-> IF r.err # "" THEN diff
                         ELSE [diff EXCEPT ![image_id] = r.out]] :
               r \in {compute_image_diff(ancestry[image_id], files, layer, image_id)}})

\* ------------------------------------------------------ requests, responses
NoResp ==
    [status |-> 0, msg |-> "", json |-> NoJson, layer |-> NoLayer, size |-> NoLayer,
     checksum |-> NoChecksum, anc |-> <<>>, files |-> <<>>, diff |-> <<>>, accel |-> 0]
NoReq == [op |-> "", id |-> 0, s |-> 0]
Request(op, id, s) == [op |-> op, id |-> id, s |-> s]

\* toolkit.api_error(message, code=400) and toolkit.response()
api_error(msg, code) == [NoResp EXCEPT !.status = code, !.msg = msg]
response == [NoResp EXCEPT !.status = 200]
\* an exception no handler catches
ServerError(msg) == [NoResp EXCEPT !.status = 500, !.msg = msg]

\* A request worker that handles no request, and its locals while it does.
Idle ==
    [pc |-> "idle", id |-> 0, s |-> 0, body |-> NoJson, hdr |-> NoChecksum,
     gate |-> TRUE, x |-> NoLayer, json_data |-> NoJson, cookie |-> {},
     parent_ancestry |-> <<>>]
\* The client before it starts an upload.
NoClient ==
    [pc |-> "idle", id |-> 0, s |-> 0, body |-> NoJson, x |-> NoLayer,
     c |-> NoChecksum, deferred |-> FALSE, got |-> NoLayer]

\* A diff worker blocked on the queue.
IdleWorker == [pc |-> "pop", id |-> 0]
\* No routine was run by itself.
NoProbe == [fn |-> "", tar_info |-> Member(<<>>, RegType, ""), inventories |-> <<>>,
            done |-> FALSE, err |-> "", out |-> <<>>]

\* The empty store, no request made, every process idle.
EmptyStore ==
    /\ json = [i \in Images |-> NoJson]
    /\ layer = [i \in Images |-> NoLayer]
    /\ checksum = [i \in Images |-> NoChecksum]
    /\ ancestry = [i \in Images |-> <<>>]
    /\ files = [i \in Images |-> <<>>]
    /\ diff = [i \in Images |-> <<>>]
    /\ mark = [i \in Images |-> FALSE]
    /\ session = [s \in Sessions |-> {}]
    /\ diff_queue = <<>>
    /\ req = NoReq
    /\ resp = NoResp
    /\ nreq = 0
    /\ procs = [p \in Procs |-> Idle]
    /\ client = NoClient
    /\ lock = [i \in Images |-> 0]
\* Every worker process runs and waits for a job.
WorkersIdle == workers = [w \in Workers |-> IdleWorker]

Init == EmptyStore /\ WorkersIdle /\ probe = NoProbe

\* ------------------------------------------------------------ PUT json
\* store_checksum: 'Invalid checksum format' unless the string has two fields.
\* fault: a well-formed checksum is the one refused
store_checksum_err_inverted(c) == Len(c) = 2
store_checksum_err(c) == Len(c) # 2
store_checksum(cs, image_id, c) ==
    IF store_checksum_err(c) THEN cs ELSE [cs EXCEPT ![image_id] = c]

\* fault: the image id is appended to the parent's ancestry
generate_ancestry_appends(image_id, parent_id, parent_ancestry) ==
    IF parent_id = 0 THEN <<image_id>> ELSE parent_ancestry \o <<image_id>>

\* generate_ancestry: the blob it writes, given the parent's (parent_id = 0:
\* no parent).
generate_ancestry(image_id, parent_id, parent_ancestry) ==
    IF parent_id = 0 THEN <<image_id>> ELSE <<image_id>> \o parent_ancestry

\* (variant: the parent's json is never looked for)
parent_missing_never(js, parent_id) == FALSE
\* line 333-334: a parent is named and its json is not in the store
parent_missing(js, parent_id) == parent_id # 0 /\ js[parent_id] = NoJson

\* check_images_list reads the session's repository and that repository's
\* images list, both written outside this module: its answer is the input gate.
put_image_json(image_id, body, hdr, gate) ==
    /\ body.kind = "obj" /\ body.parent # 0 =>
           Len(ancestry[body.parent]) < MaxAncestry
    /\ req' = Request("put_image_json", image_id, 0)
    /\ UNCHANGED <<layer, files, diff, session, diff_queue>>
    /\ IF body.kind = "invalid"
       THEN /\ resp' = ServerError("data referenced before assignment")
            /\ UNCHANGED <<json, checksum, ancestry, mark>>
       ELSE IF body.kind = "notdict"
       THEN /\ resp' = api_error("Invalid JSON", 400)
            /\ UNCHANGED <<json, checksum, ancestry, mark>>
       ELSE IF body.id = 0
       THEN /\ resp' = api_error("Missing key `id' in JSON", 400)
            /\ UNCHANGED <<json, checksum, ancestry, mark>>
       ELSE IF hdr # NoChecksum /\ store_checksum_err(hdr)
       THEN /\ resp' = api_error("Invalid checksum format", 400)
            /\ UNCHANGED <<json, checksum, ancestry, mark>>
       ELSE
         \* the header's checksum is stored, or the old one removed, first
         /\ checksum' = IF hdr # NoChecksum
                        THEN store_checksum(checksum, image_id, hdr)
                        ELSE [checksum EXCEPT ![image_id] = NoChecksum]
         /\ IF image_id # body.id
            THEN /\ resp' = api_error("JSON data contains invalid id", 400)
                 /\ UNCHANGED <<json, ancestry, mark>>
            ELSE IF ~gate
            THEN /\ resp' = api_error("This image does not belong to the repository", 400)
                 /\ UNCHANGED <<json, ancestry, mark>>
            ELSE IF parent_missing(json, body.parent)
            THEN /\ resp' = api_error("Image depends on a non existing parent", 400)
                 /\ UNCHANGED <<json, ancestry, mark>>
            ELSE IF json[image_id] # NoJson /\ ~mark[image_id]
            THEN /\ resp' = api_error("Image already exists", 409)
                 /\ UNCHANGED <<json, ancestry, mark>>
            ELSE
              /\ mark' = [mark EXCEPT ![image_id] = TRUE]
              /\ json' = [json EXCEPT ![image_id] = body]
              /\ IF body.parent # 0 /\ ancestry[body.parent] = <<>>
                 THEN /\ resp' = ServerError("IOError")
                      /\ UNCHANGED ancestry
                 ELSE /\ ancestry' =
                           [ancestry EXCEPT ![image_id] =
                               generate_ancestry(image_id, body.parent,
                                   IF body.parent = 0 THEN <<>>
                                   ELSE ancestry[body.parent])]
                      /\ resp' = response

\* ------------------------------------------------------------ PUT layer
\* The digests PUT layer computes: sha256 over the json then the bytes, and
\* the tarsum unless compute_tarsum raises (the bytes are no tar).
\* fault: the tarsum is never computed
compute_csums_sha_only(json_data, x) == {sha256_checksum(json_data, x)}
compute_csums(json_data, x) ==
    {sha256_checksum(json_data, x)}
        \cup (IF IsTar(x) THEN {tarsum_checksum(json_data, x)} ELSE {})

\* fault: the comparison never reports a mismatch
checksum_mismatch_never(c, csums) == FALSE
\* `checksum not in csums`
checksum_mismatch(c, csums) == c \notin csums

\* The files blobs after PUT layer tried to cache the inventory of x.
cache_layer_files(fs, image_id, x) ==
    IF files_from_fobj_raises(x) THEN fs
    ELSE [fs EXCEPT ![image_id] = <<_get_image_files_from_fobj(x)>>]

put_image_layer(s, image_id, x) ==
    /\ req' = Request("put_image_layer", image_id, s)
    /\ UNCHANGED <<json, checksum, ancestry, diff, diff_queue>>
    /\ IF json[image_id] = NoJson
       THEN /\ resp' = api_error("Image not found", 404)
            /\ UNCHANGED <<layer, files, mark, session>>
       ELSE IF layer[image_id] # NoLayer /\ ~mark[image_id]
       THEN /\ resp' = api_error("Image already exists", 409)
            /\ UNCHANGED <<layer, files, mark, session>>
       ELSE
         LET csums == compute_csums(json[image_id], x) IN
         /\ layer' = [layer EXCEPT ![image_id] = x]
         /\ files' = cache_layer_files(files, image_id, x)
         /\ IF checksum[image_id] = NoChecksum
            THEN /\ session' = [session EXCEPT ![s] = csums]
                 /\ resp' = response
                 /\ UNCHANGED mark
            ELSE IF checksum_mismatch(checksum[image_id], csums)
            THEN /\ resp' = api_error("Checksum mismatch, ignoring the layer", 400)
                 /\ UNCHANGED <<mark, session>>
            ELSE /\ mark' = [mark EXCEPT ![image_id] = FALSE]
                 /\ resp' = response
                 /\ UNCHANGED session

\* ---------------------------------------------------------- PUT checksum
put_image_checksum(s, image_id, hdr) ==
    /\ req' = Request("put_image_checksum", image_id, s)
    /\ UNCHANGED <<json, layer, ancestry, files, diff, session, diff_queue>>
    /\ IF hdr = NoChecksum
       THEN /\ resp' = api_error("Missing Image's checksum", 400)
            /\ UNCHANGED <<checksum, mark>>
       ELSE IF session[s] = {}
       THEN /\ resp' = api_error("Checksum not found in Cookie", 400)
            /\ UNCHANGED <<checksum, mark>>
       ELSE IF json[image_id] = NoJson
       THEN /\ resp' = api_error("Image not found", 404)
            /\ UNCHANGED <<checksum, mark>>
       ELSE IF ~mark[image_id]
       THEN /\ resp' = api_error("Cannot set this image checksum", 409)
            /\ UNCHANGED <<checksum, mark>>
       ELSE IF store_checksum_err(hdr)
       THEN /\ resp' = api_error("Invalid checksum format", 400)
            /\ UNCHANGED <<checksum, mark>>
       ELSE
         /\ checksum' = store_checksum(checksum, image_id, hdr)
         /\ IF checksum_mismatch(hdr, session[s])
            THEN /\ resp' = api_error("Checksum mismatch", 400)
                 /\ UNCHANGED mark
            ELSE /\ mark' = [mark EXCEPT ![image_id] = FALSE]
                 /\ resp' = response

\* ------------------------------------------------------------ read side
\* fault: the decorator lets every request through
require_completion_off(image_id) == FALSE
\* require_completion: the wrapped handler is not run while the mark exists.
require_completion(image_id) == mark[image_id]
BeingUploaded == api_error("Image is being uploaded, retry later", 400)
NotFound == api_error("Image not found", 404)
\* set_cache_headers answers a request carrying If-Modified-Since by itself.
NotModified == [NoResp EXCEPT !.status = 304]

\* toolkit.get_repository() and store.is_private(): "none" (no auth token),
\* "public" or "private"; both are decided outside this module.
Repos == {"none", "public", "private"}

Read(op, image_id, r) ==
    /\ req' = Request(op, image_id, 0)
    /\ resp' = r
    /\ UNCHANGED <<json, layer, checksum, ancestry, diff, mark, session>>

\* accel: cfg.nginx_x_accel_redirect is set and the store is a LocalStorage;
\* the response then carries X-Accel-Redirect to the layer's path and no body.
_get_image_layer(image_id, accel) ==
    IF accel THEN [response EXCEPT !.accel = image_id]
    ELSE IF layer[image_id] = NoLayer THEN NotFound
    ELSE [response EXCEPT !.layer = layer[image_id]]

get_private_image_layer(image_id, repo, accel) ==
    /\ Read("get_private_image_layer", image_id,
            IF require_completion(image_id) THEN BeingUploaded
            ELSE IF repo # "private" THEN NotFound
            ELSE _get_image_layer(image_id, accel))
    /\ UNCHANGED <<files, diff_queue>>

get_image_layer(image_id, repo, ifmod, accel) ==
    /\ Read("get_image_layer", image_id,
            IF require_completion(image_id) THEN BeingUploaded
            ELSE IF ifmod THEN NotModified
            ELSE IF repo = "private" THEN NotFound
            ELSE _get_image_layer(image_id, accel))
    /\ UNCHANGED <<files, diff_queue>>

\* fault: the X-Docker-Checksum header is left out
_get_image_json_no_checksum(image_id) ==
    IF json[image_id] = NoJson THEN NotFound
    ELSE [response EXCEPT !.json = json[image_id], !.size = layer[image_id]]

\* X-Docker-Size is the size of the stored layer (no header without a layer),
\* X-Docker-Checksum the stored checksum (no header without one).
_get_image_json(image_id) ==
    IF json[image_id] = NoJson THEN NotFound
    ELSE [response EXCEPT !.json = json[image_id],
                          !.size = layer[image_id],
                          !.checksum = checksum[image_id]]

get_private_image_json(image_id, repo) ==
    /\ Read("get_private_image_json", image_id,
            IF require_completion(image_id) THEN BeingUploaded
            ELSE IF repo # "private" THEN NotFound
            ELSE _get_image_json(image_id))
    /\ UNCHANGED <<files, diff_queue>>

get_image_json(image_id, repo, ifmod) ==
    /\ Read("get_image_json", image_id,
            IF require_completion(image_id) THEN BeingUploaded
            ELSE IF ifmod THEN NotModified
            ELSE IF repo = "private" THEN NotFound
            ELSE _get_image_json(image_id))
    /\ UNCHANGED <<files, diff_queue>>

get_image_ancestry(image_id, ifmod) ==
    /\ Read("get_image_ancestry", image_id,
            IF require_completion(image_id) THEN BeingUploaded
            ELSE IF ifmod THEN NotModified
            ELSE IF ancestry[image_id] = <<>> THEN NotFound
            ELSE [response EXCEPT !.anc = ancestry[image_id]])
    /\ UNCHANGED <<files, diff_queue>>

\* The handler is declared with a `headers` parameter that no decorator
\* supplies: calling it raises TypeError.
get_private_image_files(image_id) ==
    /\ Read("get_private_image_files", image_id,
            IF require_completion(image_id) THEN BeingUploaded
            ELSE ServerError("TypeError"))
    /\ UNCHANGED <<files, diff_queue>>

get_image_files(image_id, repo, ifmod) ==
    LET r == _get_image_files(files, layer, image_id)
        served == ~require_completion(image_id) /\ ~ifmod /\ repo # "private"
    IN  /\ Read("get_image_files", image_id,
                IF require_completion(image_id) THEN BeingUploaded
                ELSE IF ifmod THEN NotModified
                ELSE IF repo = "private" THEN NotFound
                ELSE IF r.err = "IOError" THEN NotFound
                ELSE IF r.err = "TarError"
                THEN api_error("Layer format not supported", 400)
                ELSE IF r.err # "" THEN ServerError(r.err)
                ELSE [response EXCEPT !.files = <<r.inv>>])
        /\ files' = IF served THEN r.files ELSE files
        /\ UNCHANGED diff_queue

\* rqueue.CappedCollection(..., 1024).push: the oldest id is dropped on overflow
DiffQueueCapacity == 1024
\* (variant: a push that enqueues the id twice)
push_twice(q, id) == Append(Append(q, id), id)
push(q, id) ==
    IF Len(q) + 1 > DiffQueueCapacity THEN Tail(Append(q, id)) ELSE Append(q, id)

get_image_diff(image_id, repo, ifmod) ==
    LET served == ~require_completion(image_id) /\ ~ifmod /\ repo # "private"
    IN  /\ Read("get_image_diff", image_id,
                IF require_completion(image_id) THEN BeingUploaded
                ELSE IF ifmod THEN NotModified
                ELSE IF repo = "private" THEN NotFound
                ELSE [response EXCEPT !.diff = diff[image_id]])
        /\ diff_queue' = IF served /\ diff[image_id] = <<>>
                         THEN push(diff_queue, image_id) ELSE diff_queue
        /\ UNCHANGED files

\* ------------------------------------------------------------ diff worker
\* The worker pops an id and runs handle_request on it: with the per-id lock
\* free it computes and stores the diff unless one is cached.  An exception
\* of the diff engine leaves whatever inventories it cached on its way.
handle_request ==
    /\ diff_queue # <<>>
    /\ LET layer_id == Head(diff_queue)
           r == _get_image_diff(layer_id)
       IN  /\ diff_queue' = Tail(diff_queue)
           /\ files' = r.files
           /\ diff' = r.diff
    /\ UNCHANGED <<json, layer, checksum, ancestry, mark, session, req, resp, nreq, procs, client, aside>>

\* ------------------------------------------------------------------ Spec
\* The checksum headers a client sends with a json: none, a digest of that json
\* with some layer, a well-formed value that is no such digest, a malformed one.
\* (A digest of any other json acts as the wrong value does.)
Headers(json_data) ==
    {NoChecksum, WrongChecksum, MalformedChecksum}
    \cup UNION {compute_csums(json_data, x) : x \in Layers}

\* The inputs of a read that the auth layer, the request headers and the
\* configuration decide.  If-Modified-Since is answered before the repository
\* and the configuration are looked at, so one combination carries it.
ReadInputs ==
    {in \in [repo : Repos, ifmod : BOOLEAN, accel : BOOLEAN] :
        in.ifmod => (in.repo = "none" /\ ~in.accel)}

\* A body whose id is missing or not the URL's is rejected whatever else it
\* holds, and no digest of it can match the image's json: such bodies are sent
\* without a parent and without a digest of their own.
JsonBodies(image_id) ==
    {b \in Bodies : b.id # image_id => b.parent = 0}
JsonHeaders(image_id, b) ==
    IF b.kind = "obj" /\ b.id = image_id THEN Headers(b)
    ELSE IF b.kind = "obj" /\ b.id # 0
    THEN {NoChecksum, WrongChecksum, MalformedChecksum}
    ELSE {NoChecksum}

\* One more request is taken while the budget lasts.
Count == nreq < MaxRequests /\ nreq' = nreq + 1 /\ UNCHANGED <<procs, client, aside>>

PutImageJson ==
    \E i \in Images :
       \E b \in JsonBodies(i), g \in BOOLEAN :
          \E h \in JsonHeaders(i, b) :
             Count /\ (~g => b.id = i) /\ put_image_json(i, b, h, g)
PutImageLayer ==
    \E s \in Sessions, i \in Images, x \in Layers : Count /\ put_image_layer(s, i, x)
PutImageChecksum ==
    \E s \in Sessions, i \in Images :
       \E h \in Headers(json[i]) \cup session[s] : Count /\ put_image_checksum(s, i, h)
GetPrivateImageLayer ==
    \E i \in Images, in \in ReadInputs :
       Count /\ ~in.ifmod /\ get_private_image_layer(i, in.repo, in.accel)
GetImageLayer ==
    \E i \in Images, in \in ReadInputs :
       Count /\ get_image_layer(i, in.repo, in.ifmod, in.accel)
GetPrivateImageJson ==
    \E i \in Images, in \in ReadInputs :
       Count /\ ~in.ifmod /\ ~in.accel /\ get_private_image_json(i, in.repo)
GetImageJson ==
    \E i \in Images, in \in ReadInputs :
       Count /\ ~in.accel /\ get_image_json(i, in.repo, in.ifmod)
GetImageAncestry ==
    \E i \in Images, m \in BOOLEAN : Count /\ get_image_ancestry(i, m)
GetPrivateImageFiles ==
    \E i \in Images : Count /\ get_private_image_files(i)
GetImageFiles ==
    \E i \in Images, in \in ReadInputs :
       Count /\ ~in.accel /\ get_image_files(i, in.repo, in.ifmod)
GetImageDiff ==
    \E i \in Images, in \in ReadInputs :
       Count /\ ~in.accel /\ get_image_diff(i, in.repo, in.ifmod)

Next ==
    \/ PutImageJson
    \/ PutImageLayer
    \/ PutImageChecksum
    \/ GetPrivateImageLayer
    \/ GetImageLayer
    \/ GetPrivateImageJson
    \/ GetImageJson
    \/ GetImageAncestry
    \/ GetPrivateImageFiles
    \/ GetImageFiles
    \/ GetImageDiff
    \/ handle_request

Spec == Init /\ [][Next]_vars

\* ------------------------------------------- the PUT handlers, step by step
\* Requests are served by concurrent workers; a handler is a sequence of store
\* accesses, each one atomic, with the handler's local work done along with the
\* access it follows.  The worker's position is the access it does next.
ConcImages == {1}
ConcBodies(i) == {b \in Bodies : b.kind = "obj" /\ b.id = i /\ b.parent \in {0, i}}
Goto(p, pc) ==
    /\ procs' = [procs EXCEPT ![p].pc = pc]
    /\ UNCHANGED <<req, resp>>
Reply(p, op, r) ==
    /\ procs' = [procs EXCEPT ![p] = Idle]
    /\ req' = Request(op, procs[p].id, IF op = "put_image_json" THEN 0 ELSE procs[p].s)
    /\ resp' = r
\* a request reaches an idle worker
Begin(p) ==
    /\ procs[p].pc = "idle"
    /\ nreq < MaxConcRequests
    /\ nreq' = nreq + 1
Step(p, pc) == procs[p].pc = pc /\ UNCHANGED nreq
Others == <<files, diff, diff_queue, client, aside>>

\* put_image_json, lines 308-332: the body is parsed, the checksum stored or
\* removed, then the id and the repository are checked.
json_begin(p) ==
    \E i \in ConcImages, g \in BOOLEAN :
       \E b \in ConcBodies(i) :
          \E h \in {NoChecksum, sha256_checksum(b, "tarA")} :
             /\ Begin(p)
             /\ b.parent # 0 => Len(ancestry[b.parent]) < MaxAncestry
             /\ checksum' = IF h # NoChecksum THEN store_checksum(checksum, i, h)
                            ELSE [checksum EXCEPT ![i] = NoChecksum]
             /\ IF ~g
                THEN /\ procs' = procs
                     /\ req' = Request("put_image_json", i, 0)
                     /\ resp' = api_error("This image does not belong to the repository", 400)
                ELSE /\ procs' = [procs EXCEPT ![p] =
                           [Idle EXCEPT !.pc = "json_parent", !.id = i, !.body = b,
                                        !.hdr = h, !.gate = g]]
                     /\ UNCHANGED <<req, resp>>
             /\ UNCHANGED <<json, layer, ancestry, mark, session, Others>>
\* line 334
json_parent(p) ==
    /\ Step(p, "json_parent")
    /\ IF parent_missing(json, procs[p].body.parent)
       THEN Reply(p, "put_image_json",
                  api_error("Image depends on a non existing parent", 400))
       ELSE Goto(p, "json_exists")
    /\ UNCHANGED <<store, session, diff_queue, client, aside>>
\* line 338, store.exists(json_path)
json_exists(p) ==
    /\ Step(p, "json_exists")
    /\ Goto(p, IF json[procs[p].id] # NoJson THEN "json_mark" ELSE "json_put_mark")
    /\ UNCHANGED <<store, session, diff_queue, client, aside>>
\* line 338, store.exists(mark_path)
json_mark(p) ==
    /\ Step(p, "json_mark")
    /\ IF ~mark[procs[p].id]
       THEN Reply(p, "put_image_json", api_error("Image already exists", 409))
       ELSE Goto(p, "json_put_mark")
    /\ UNCHANGED <<store, session, diff_queue, client, aside>>
\* line 342
json_put_mark(p) ==
    /\ Step(p, "json_put_mark")
    /\ mark' = [mark EXCEPT ![procs[p].id] = TRUE]
    /\ Goto(p, "json_put_json")
    /\ UNCHANGED <<json, layer, checksum, ancestry, session, Others>>
\* line 343
json_put_json(p) ==
    /\ Step(p, "json_put_json")
    /\ json' = [json EXCEPT ![procs[p].id] = procs[p].body]
    /\ Goto(p, IF procs[p].body.parent = 0 THEN "json_put_ancestry"
               ELSE "json_get_ancestry")
    /\ UNCHANGED <<mark, layer, checksum, ancestry, session, Others>>
\* generate_ancestry, line 278: the parent's ancestry is read
json_get_ancestry(p) ==
    /\ Step(p, "json_get_ancestry")
    /\ IF ancestry[procs[p].body.parent] = <<>>
       THEN Reply(p, "put_image_json", ServerError("IOError"))
       ELSE /\ procs' = [procs EXCEPT ![p].pc = "json_put_ancestry",
                                      ![p].parent_ancestry =
                                          ancestry[procs[p].body.parent]]
            /\ UNCHANGED <<req, resp>>
    /\ UNCHANGED <<store, session, diff_queue, client, aside>>
\* generate_ancestry, lines 276 and 281
json_put_ancestry(p) ==
    /\ Step(p, "json_put_ancestry")
    /\ ancestry' = [ancestry EXCEPT ![procs[p].id] =
                       generate_ancestry(procs[p].id, procs[p].body.parent,
                                         procs[p].parent_ancestry)]
    /\ Reply(p, "put_image_json", response)
    /\ UNCHANGED <<json, layer, checksum, mark, session, Others>>

\* put_image_layer, lines 129-133: the json is read
layer_begin(p) ==
    \E s \in Sessions, i \in ConcImages, x \in Layers :
       /\ Begin(p)
       /\ IF json[i] = NoJson
          THEN /\ procs' = procs
               /\ req' = Request("put_image_layer", i, s)
               /\ resp' = api_error("Image not found", 404)
          ELSE /\ procs' = [procs EXCEPT ![p] =
                     [Idle EXCEPT !.pc = "layer_exists", !.id = i, !.s = s,
                                  !.x = x, !.json_data = json[i]]]
               /\ UNCHANGED <<req, resp>>
       /\ UNCHANGED <<store, session, diff_queue, client, aside>>
\* line 136, store.exists(layer_path)
layer_exists(p) ==
    /\ Step(p, "layer_exists")
    /\ Goto(p, IF layer[procs[p].id] # NoLayer THEN "layer_mark" ELSE "layer_write")
    /\ UNCHANGED <<store, session, diff_queue, client, aside>>
\* line 136, store.exists(mark_path)
layer_mark(p) ==
    /\ Step(p, "layer_mark")
    /\ IF ~mark[procs[p].id]
       THEN Reply(p, "put_image_layer", api_error("Image already exists", 409))
       ELSE Goto(p, "layer_write")
    /\ UNCHANGED <<store, session, diff_queue, client, aside>>
\* line 150, store.stream_write
layer_write(p) ==
    /\ Step(p, "layer_write")
    /\ layer' = [layer EXCEPT ![procs[p].id] = procs[p].x]
    /\ Goto(p, "layer_files")
    /\ UNCHANGED <<json, checksum, ancestry, files, diff, mark, session,
                   diff_queue, client, aside>>
\* lines 153-158: the inventory is cached when the bytes are a tar
layer_files(p) ==
    /\ Step(p, "layer_files")
    /\ files' = cache_layer_files(files, procs[p].id, procs[p].x)
    /\ Goto(p, "layer_checksum")
    /\ UNCHANGED <<json, layer, checksum, ancestry, diff, mark, session,
                   diff_queue, client, aside>>
\* lines 160-177: the digests are computed, the stored checksum read and compared
layer_checksum(p) ==
    /\ Step(p, "layer_checksum")
    /\ LET i == procs[p].id
           csums == compute_csums(procs[p].json_data, procs[p].x)
       IN  IF checksum[i] = NoChecksum
           THEN /\ session' = [session EXCEPT ![procs[p].s] = csums]
                /\ Reply(p, "put_image_layer", response)
           ELSE IF checksum_mismatch(checksum[i], csums)
           THEN /\ Reply(p, "put_image_layer",
                         api_error("Checksum mismatch, ignoring the layer", 400))
                /\ UNCHANGED session
           ELSE /\ Goto(p, "layer_remove")
                /\ UNCHANGED session
    /\ UNCHANGED <<store, diff_queue, client, aside>>
\* line 182
layer_remove(p) ==
    /\ Step(p, "layer_remove")
    /\ mark' = [mark EXCEPT ![procs[p].id] = FALSE]
    /\ Reply(p, "put_image_layer", response)
    /\ UNCHANGED <<json, layer, checksum, ancestry, session, Others>>

\* put_image_checksum, lines 188-195: the header and the session's cookie, which
\* came with the request, are looked at, then store.exists(json_path)
checksum_begin(p) ==
    \E s \in Sessions, i \in ConcImages :
       \E h \in {NoChecksum, WrongChecksum} \cup session[s] :
          /\ Begin(p)
          /\ IF h = NoChecksum \/ session[s] = {} \/ json[i] = NoJson
             THEN /\ procs' = procs
                  /\ req' = Request("put_image_checksum", i, s)
                  /\ resp' = IF h = NoChecksum
                             THEN api_error("Missing Image's checksum", 400)
                             ELSE IF session[s] = {}
                             THEN api_error("Checksum not found in Cookie", 400)
                             ELSE api_error("Image not found", 404)
             ELSE /\ procs' = [procs EXCEPT ![p] =
                        [Idle EXCEPT !.pc = "checksum_mark", !.id = i, !.s = s,
                                     !.hdr = h, !.cookie = session[s]]]
                  /\ UNCHANGED <<req, resp>>
          /\ UNCHANGED <<store, session, diff_queue, client, aside>>
\* line 197
checksum_mark(p) ==
    /\ Step(p, "checksum_mark")
    /\ IF ~mark[procs[p].id]
       THEN Reply(p, "put_image_checksum",
                  api_error("Cannot set this image checksum", 409))
       ELSE Goto(p, "checksum_store")
    /\ UNCHANGED <<store, session, diff_queue, client, aside>>
\* lines 199-205: the checksum is stored, then compared with the cookie's
checksum_store(p) ==
    /\ Step(p, "checksum_store")
    /\ IF store_checksum_err(procs[p].hdr)
       THEN /\ Reply(p, "put_image_checksum", api_error("Invalid checksum format", 400))
            /\ UNCHANGED checksum
       ELSE /\ checksum' = store_checksum(checksum, procs[p].id, procs[p].hdr)
            /\ IF checksum_mismatch(procs[p].hdr, procs[p].cookie)
               THEN Reply(p, "put_image_checksum", api_error("Checksum mismatch", 400))
               ELSE Goto(p, "checksum_remove")
    /\ UNCHANGED <<json, layer, ancestry, mark, session, Others>>
\* line 206
checksum_remove(p) ==
    /\ Step(p, "checksum_remove")
    /\ mark' = [mark EXCEPT ![procs[p].id] = FALSE]
    /\ Reply(p, "put_image_checksum", response)
    /\ UNCHANGED <<json, layer, checksum, ancestry, session, Others>>

LayerSteps(p) ==
    \/ layer_begin(p) \/ layer_exists(p) \/ layer_mark(p) \/ layer_write(p)
    \/ layer_files(p) \/ layer_checksum(p) \/ layer_remove(p)
ConcNext ==
    \E p \in Procs :
       \/ json_begin(p) \/ json_parent(p) \/ json_exists(p) \/ json_mark(p)
       \/ json_put_mark(p) \/ json_put_json(p) \/ json_get_ancestry(p)
       \/ json_put_ancestry(p)
       \/ LayerSteps(p)
       \/ checksum_begin(p) \/ checksum_mark(p) \/ checksum_store(p)
       \/ checksum_remove(p)
\* Concurrent PUT json, PUT layer and PUT checksum requests for one image.
ConcSpec == Init /\ [][ConcNext]_vars

\* Concurrent PUT layer requests alone: the jsons are put, one request at a
\* time, before the first PUT layer arrives.
RacePreamble ==
    /\ nreq < MaxPreamble
    /\ \A p \in Procs : procs[p].pc = "idle"
    /\ \A i \in Images : layer[i] = NoLayer
    /\ PutImageJson
RaceNext == RacePreamble \/ \E p \in Procs : LayerSteps(p)
RaceSpec == Init /\ [][RaceNext]_vars

\* ------------------------------------------------- one client's upload
\* After some earlier requests a client uploads one image, one request after
\* the other and giving up at the first error, then fetches it.
Preamble ==
    /\ client.pc = "idle"
    /\ nreq < MaxPreamble
    /\ (PutImageJson \/ PutImageLayer \/ PutImageChecksum)
ClientDigests(b, x) ==
    {sha256_checksum(b, x)} \cup (IF IsTar(x) THEN {tarsum_checksum(b, x)} ELSE {})
After(pc) ==
    /\ client' = [client EXCEPT !.pc = IF resp'.status = 200 THEN pc ELSE "failed"]
    /\ UNCHANGED <<nreq, procs, aside>>
ClientPutJson ==
    \E s \in Sessions, i \in Images, x \in Layers, d \in BOOLEAN :
       \E b \in {b \in Bodies : b.kind = "obj" /\ b.id = i} :
          \E c \in ClientDigests(b, x) :
             /\ client.pc = "idle"
             /\ put_image_json(i, b, IF d THEN NoChecksum ELSE c, TRUE)
             /\ client' = [pc |-> IF resp'.status = 200 THEN "json" ELSE "failed",
                           id |-> i, s |-> s, body |-> b, x |-> x, c |-> c,
                           deferred |-> d, got |-> NoLayer]
             /\ UNCHANGED <<nreq, procs, aside>>
ClientPutLayer ==
    /\ client.pc = "json"
    /\ put_image_layer(client.s, client.id, client.x)
    /\ After(IF client.deferred THEN "layer" ELSE "uploaded")
ClientPutChecksum ==
    /\ client.pc = "layer"
    /\ put_image_checksum(client.s, client.id, client.c)
    /\ After("uploaded")
\* what a GET layer reply delivers: its body, or with X-Accel-Redirect the file
\* the front end then serves
Delivered(r) ==
    IF r.status # 200 THEN NoLayer
    ELSE IF r.accel # 0 THEN layer[r.accel] ELSE r.layer
ClientGetLayer ==
    /\ client.pc = "uploaded"
    /\ \E in \in ReadInputs :
          \/ get_image_layer(client.id, in.repo, in.ifmod, in.accel)
          \/ ~in.ifmod /\ get_private_image_layer(client.id, in.repo, in.accel)
    /\ client' = [client EXCEPT
                     !.pc = IF resp'.status = 200 THEN "got_layer" ELSE "failed",
                     !.got = Delivered(resp')]
    /\ UNCHANGED <<nreq, procs, aside>>
ClientGetJson ==
    /\ client.pc = "got_layer"
    /\ \E in \in ReadInputs :
          \/ get_image_json(client.id, in.repo, in.ifmod)
          \/ ~in.ifmod /\ get_private_image_json(client.id, in.repo)
    /\ After("got_json")
RoundTripNext ==
    \/ Preamble
    \/ ClientPutJson \/ ClientPutLayer \/ ClientPutChecksum
    \/ ClientGetLayer \/ ClientGetJson
RoundTripSpec == Init /\ [][RoundTripNext]_vars

\* --------------------------------------------------- uploads and diff jobs
\* The requests that feed the diff worker, one at a time and well-formed: PUT
\* json of a body with the URL's id, PUT layer, PUT checksum with a candidate
\* of the session, GET diff of a public image; and the worker.
DiffCount ==
    nreq < MaxDiffRequests /\ nreq' = nreq + 1 /\ UNCHANGED <<procs, client, aside>>
DiffPutJson ==
    \E i \in Images :
       \E b \in {b \in Bodies : b.kind = "obj" /\ b.id = i} :
          \E h \in {NoChecksum, sha256_checksum(b, "tarA")} :
             DiffCount /\ put_image_json(i, b, h, TRUE)
DiffPutLayer ==
    \E i \in Images, x \in Layers : DiffCount /\ put_image_layer(1, i, x)
DiffPutChecksum ==
    \E i \in Images :
       \E h \in session[1] : DiffCount /\ put_image_checksum(1, i, h)
DiffGetDiff ==
    \E i \in Images : DiffCount /\ get_image_diff(i, "public", FALSE)
DiffNext ==
    \/ DiffPutJson \/ DiffPutLayer \/ DiffPutChecksum \/ DiffGetDiff
    \/ handle_request
DiffSpec == Init /\ [][DiffNext]_vars

\* ------------------------------------------- the diff worker, step by step
\* Several worker processes run diff-worker.py's loop; each keeps the id it
\* popped.  lock[i] is the worker holding the lock of id i, 0 when it is free.
\* The lock (lib/rlock.py) is not part of the sources read here: it is modelled
\* by its contract, try-acquire with timeout 0 and expiry after 5 minutes.
WorkerOthers ==
    UNCHANGED <<json, layer, checksum, ancestry, mark, session, req, resp, nreq,
                procs, client, probe>>

\* worker loop: the blocking pop of the next layer id
worker_pop(w) ==
    /\ workers[w].pc = "pop"
    /\ diff_queue # <<>>
    /\ workers' = [workers EXCEPT ![w] = [pc |-> "lock", id |-> Head(diff_queue)]]
    /\ diff_queue' = Tail(diff_queue)
    /\ UNCHANGED <<files, diff, lock>> /\ WorkerOthers

\* rlock.Lock(...).__enter__ with timeout=0: the lock is taken if it is free,
\* else LockTimeout is raised at once and handle_request skips the id.
lock_enter(w) ==
    /\ workers[w].pc = "lock"
    /\ IF lock[workers[w].id] = 0
       THEN /\ lock' = [lock EXCEPT ![workers[w].id] = w]
            /\ workers' = [workers EXCEPT ![w].pc = "cache"]
       ELSE /\ workers' = [workers EXCEPT ![w] = IdleWorker]
            /\ UNCHANGED lock
    /\ UNCHANGED <<files, diff, diff_queue>> /\ WorkerOthers

\* the worker's own look at the diff cache
handle_request_cache(w) ==
    /\ workers[w].pc = "cache"
    /\ workers' = [workers EXCEPT ![w].pc =
                      IF diff[workers[w].id] # <<>> THEN "exit" ELSE "compute"]
    /\ UNCHANGED <<files, diff, diff_queue, lock>> /\ WorkerOthers

\* images._get_image_diff(layer_id); an exception leaves through __exit__ too
handle_request_compute(w) ==
    /\ workers[w].pc = "compute"
    /\ \E r \in {_get_image_diff(workers[w].id)} :
          /\ files' = r.files
          /\ diff' = r.diff
    /\ workers' = [workers EXCEPT ![w].pc = "exit"]
    /\ UNCHANGED <<diff_queue, lock>> /\ WorkerOthers

\* rlock.Lock(...).__exit__: the holder gives the lock back
lock_exit(w) ==
    /\ workers[w].pc = "exit"
    /\ lock' = [lock EXCEPT ![workers[w].id] = IF @ = w THEN 0 ELSE @]
    /\ workers' = [workers EXCEPT ![w] = IdleWorker]
    /\ UNCHANGED <<files, diff, diff_queue>> /\ WorkerOthers

\* (variant: a lock that never expires)
lock_never_expires == FALSE /\ UNCHANGED vars

\* expires=60*5: five minutes after it was taken the lock is free again,
\* wherever its holder is (a diff of large layers takes as long as it takes).
lock_expires ==
    /\ \E i \in Images :
          /\ lock[i] # 0
          /\ lock' = [lock EXCEPT ![i] = 0]
    /\ UNCHANGED <<files, diff, diff_queue, workers>> /\ WorkerOthers

\* The requests that fill the store and the queue.
JobCount ==
    nreq < MaxJobRequests /\ nreq' = nreq + 1 /\ UNCHANGED <<procs, client, aside>>
JobPutJson ==
    \E i \in Images : \E b \in {b \in Bodies : b.kind = "obj" /\ b.id = i} :
       JobCount /\ put_image_json(i, b, NoChecksum, TRUE)
JobPutLayer == \E i \in Images : JobCount /\ put_image_layer(1, i, "tarA")
JobGetDiff == \E i \in Images : JobCount /\ get_image_diff(i, "public", FALSE)

WorkerNext ==
    \/ JobPutJson \/ JobPutLayer \/ JobGetDiff
    \/ \E w \in Workers :
          \/ worker_pop(w) \/ lock_enter(w) \/ handle_request_cache(w)
          \/ handle_request_compute(w) \/ lock_exit(w)
    \/ lock_expires
WorkerSpec == Init /\ [][WorkerNext]_vars

\* ------------------------------------------------- the diff engine by itself
\* The engine run on arbitrary inventories: probe.inventories holds the files
\* inventory of the top layer, then those of its ancestors, newest first.
\* Entries are <<path, type, deleted, meta>> as _serialize_tar_info makes them;
\* an inventory may list one path twice, as a tar may.
RECURSIVE SeqsUpTo(_, _)
SeqsUpTo(S, n) ==
    IF n = 0 THEN {<<>>}
    ELSE LET shorter == SeqsUpTo(S, n - 1)
         IN  shorter \cup {Append(q, e) : q \in shorter, e \in S}

EnginePaths == {<<"/", "x">>, <<"/", "y">>}
EngineEntries == {<<p, "f", d, "m">> : p \in EnginePaths, d \in BOOLEAN}
EngineInventories == SeqsUpTo(EngineEntries, MaxInventory)

EngineInit ==
    /\ EmptyStore /\ WorkersIdle
    /\ \E invs \in SeqsUpTo(EngineInventories, MaxAncestry) \ {<<>>} :
          probe = [NoProbe EXCEPT !.fn = "diff", !.inventories = invs]

\* The store for a run: image k holds inventory k in its files cache and the
\* top image's ancestry is 1, 2, ..., n.
EngineFiles(invs) == [k \in 1..Len(invs) |-> <<invs[k]>>]
EngineLayers(invs) == [k \in 1..Len(invs) |-> NoLayer]
EngineAncestry(invs) == [k \in 1..Len(invs) |-> k]

engine_diff ==
    /\ probe.fn = "diff" /\ ~probe.done
    /\ \E r \in {compute_image_diff(EngineAncestry(probe.inventories),
                                    EngineFiles(probe.inventories),
                                    EngineLayers(probe.inventories), 1)} :
          probe' = [probe EXCEPT !.done = TRUE, !.err = r.err, !.out = r.out]
    /\ UNCHANGED <<json, layer, checksum, ancestry, files, diff, mark, session,
                   diff_queue, req, resp, nreq, procs, client, workers, lock>>

EngineNext == engine_diff
EngineSpec == EngineInit /\ [][EngineNext]_vars

\* ------------------------------------------- the archive reader by itself
\* The reader run on one tar member of an arbitrary name and type.  Names are
\* made of the pieces the reader looks for and of a plain character.
NamePieces ==
    {<<".">>, <<"/">>, <<".", "/">>, <<".", "w", "h", ".">>, <<"x">>}
RECURSIVE Names(_)
Names(n) ==
    IF n = 0 THEN {<<>>}
    ELSE LET shorter == Names(n - 1)
         IN  shorter \cup {q \o e : q \in shorter, e \in NamePieces}
MemberTypes == FILE_TYPES_keys \cup {FifoType}

ReaderInit ==
    /\ EmptyStore /\ WorkersIdle
    /\ \E name \in Names(MaxPieces) \ {<<>>}, type \in MemberTypes :
          probe = [NoProbe EXCEPT !.fn = "reader",
                                  !.tar_info = Member(name, type, "m")]

\* _read_tarfile on an archive of that one member; FILE_TYPES[tar_info.type]
\* raises KeyError for a type it does not list.
reader_read ==
    /\ probe.fn = "reader" /\ ~probe.done
    /\ probe' = IF probe.tar_info.type \notin FILE_TYPES_keys
                THEN [probe EXCEPT !.done = TRUE, !.err = "KeyError"]
                ELSE [probe EXCEPT !.done = TRUE,
                                   !.out = _read_tarfile(<<probe.tar_info>>)]
    /\ UNCHANGED <<json, layer, checksum, ancestry, files, diff, mark, session,
                   diff_queue, req, resp, nreq, procs, client, workers, lock>>

ReaderNext == reader_read
ReaderSpec == ReaderInit /\ [][ReaderNext]_vars

\* -------------------------------------------- polling for a diff, for ever
\* One image is uploaded and then polled with GET diff without end while the
\* workers run.  Either worker 1 runs alone, and the polls fill the queue to
\* its capacity, where it drops its oldest ids; or every worker runs, and then
\* the client polls only while fewer than MaxBacklog ids are queued.
LiveImage == 1
LiveBody == [kind |-> "obj", id |-> LiveImage, parent |-> 0]
\* A worker process that was never started.
WorkerOff == [pc |-> "off", id |-> 0]

LiveInit ==
    /\ EmptyStore /\ probe = NoProbe
    /\ \E on \in {{1}, Workers} :
          workers = [w \in Workers |-> IF w \in on THEN IdleWorker ELSE WorkerOff]

LiveCount ==
    nreq < MaxLiveUploads /\ nreq' = nreq + 1 /\ UNCHANGED <<procs, client, aside>>
LivePutJson ==
    \E x \in Layers :
       LiveCount /\ put_image_json(LiveImage, LiveBody, sha256_checksum(LiveBody, x), TRUE)
LivePutLayer == \E x \in Layers : LiveCount /\ put_image_layer(1, LiveImage, x)
\* the client's poll: not counted, it is repeated for ever
LivePoll ==
    /\ (\E w \in Workers : workers[w].pc = "off") \/ Len(diff_queue) < MaxBacklog
    /\ get_image_diff(LiveImage, "public", FALSE)
    /\ UNCHANGED <<nreq, procs, client, aside>>

WorkerStep(w) ==
    \/ worker_pop(w) \/ lock_enter(w) \/ handle_request_cache(w)
    \/ handle_request_compute(w) \/ lock_exit(w)

LiveNext ==
    \/ LivePutJson \/ LivePutLayer \/ LivePoll
    \/ \E w \in Workers : WorkerStep(w)
    \/ lock_expires
\* The client keeps polling, worker 1 keeps taking jobs (any other worker may
\* stop anywhere), and a held lock expires in the end.
LiveSpec ==
    /\ LiveInit /\ [][LiveNext]_vars
    /\ WF_vars(LivePoll) /\ WF_vars(WorkerStep(1)) /\ WF_vars(lock_expires)

\* ================================================================== claims
\* The digests of an upload as the protocol defines them: sha256 over the json
\* then the layer, and the tarsum when the layer is a tar.
Digests(j, x) ==
    {sha256_checksum(j, x)} \cup (IF IsTar(x) THEN {tarsum_checksum(j, x)} ELSE {})
Finalized(i) == json[i] # NoJson /\ ~mark[i]
\* PUT layer gets past its two admission checks.
LayerAdmitted(i) == json[i] # NoJson /\ ~(layer[i] # NoLayer /\ ~mark[i])
\* The step answers one request of the given handler.
Answers(op) == nreq' = nreq + 1 /\ req'.op = op
ReadOps ==
    {"get_private_image_layer", "get_image_layer", "get_private_image_json",
     "get_image_json", "get_image_ancestry", "get_private_image_files",
     "get_image_files", "get_image_diff"}
NoContent(r) ==
    /\ r.json = NoJson /\ r.layer = NoLayer /\ r.size = NoLayer
    /\ r.checksum = NoChecksum /\ r.anc = <<>> /\ r.files = <<>> /\ r.diff = <<>>
    /\ r.accel = 0

\* C1: whenever an image has its json stored and no mark, its layer is stored,
\* and every step that removes a mark leaves a stored checksum that is a digest
\* (sha256 or tarsum) of an upload of that image: of one of its jsons and a layer.
C1_MarkAbsentMeansVerifiedLayer ==
    [][\A i \in Images :
         /\ (json'[i] # NoJson /\ ~mark'[i]) => layer'[i] # NoLayer
         /\ (mark[i] /\ ~mark'[i]) =>
               \E b \in Bodies, x \in Layers :
                  b.kind = "obj" /\ b.id = i /\ checksum'[i] \in Digests(b, x)]_vars

\* C2: a checksum mismatch replies with an error and does not touch the mark:
\* PUT layer finding a stored checksum outside the digests of what it received,
\* and PUT checksum given a value outside the session's candidates.
C2_MismatchKeepsMark ==
    [][/\ Answers("put_image_layer") =>
            \A x \in Layers :
               ( /\ put_image_layer(req'.s, req'.id, x)
                 /\ LayerAdmitted(req'.id)
                 /\ checksum[req'.id] # NoChecksum
                 /\ checksum[req'.id] \notin Digests(json[req'.id], x) )
               => (resp'.status >= 400 /\ mark'[req'.id] = mark[req'.id])
       /\ Answers("put_image_checksum") =>
            \A h \in Headers(json[req'.id]) \ session[req'.s] :
               put_image_checksum(req'.s, req'.id, h)
               => (resp'.status >= 400 /\ mark'[req'.id] = mark[req'.id])]_vars
\* reached: PUT layer answered a mismatch and the mark is still there
C2_Witness ==
    /\ req.op = "put_image_layer"
    /\ resp.msg = "Checksum mismatch, ignoring the layer"
    /\ mark[req.id]
    /\ checksum[req.id] \notin Digests(json[req.id], layer[req.id])

\* C3: a read of an image whose mark exists is answered with an error that
\* carries nothing stored, on every read endpoint.
C3_NoReadWhileMarked ==
    [][(Answers(req'.op) /\ req'.op \in ReadOps /\ mark[req'.id])
          => (resp'.status >= 400 /\ NoContent(resp'))]_vars
\* reached: a read refused although layer and json are there to be served
C3_Witness ==
    /\ req.op \in ReadOps
    /\ resp = BeingUploaded
    /\ mark[req.id] /\ layer[req.id] # NoLayer /\ json[req.id] # NoJson

\* C4: once an image is finalized (json and layer stored, mark absent) no step
\* of concurrently running PUT json, PUT layer and PUT checksum requests puts
\* the mark back or changes the stored json or layer.
C4_FinalizedIsTerminal ==
    [][\A i \in Images :
         (Finalized(i) /\ layer[i] # NoLayer)
         => (~mark'[i] /\ json'[i] = json[i] /\ layer'[i] = layer[i])]_vars

\* C5: a PUT json rejected for its id, by the repository gate, for its parent
\* or because the image is finalized leaves every blob of the store as it was,
\* the stored checksum included.
RejectMsgs ==
    {"JSON data contains invalid id",
     "This image does not belong to the repository",
     "Image depends on a non existing parent",
     "Image already exists"}
C5_RejectedPutJsonChangesNothing ==
    [][(Answers("put_image_json") /\ resp'.msg \in RejectMsgs)
          => UNCHANGED <<json, layer, checksum, ancestry, files, diff, mark>>]_vars

\* C6: with PUT layer requests for one image running concurrently, every step
\* that removes the mark leaves in the store a layer whose digests include the
\* stored checksum.
C6_RemovedMarkLeavesMatchingLayer ==
    [][\A i \in Images :
         (mark[i] /\ ~mark'[i])
         => checksum'[i] \in Digests(json'[i], layer'[i])]_vars

\* C7: after a successful upload of layer X with json J, in either flow, GET
\* layer delivers X, and GET json returns J with X-Docker-Checksum equal to the
\* stored checksum, which is the one the client sent.
C7_RoundTrip ==
    /\ client.pc \in {"got_layer", "got_json"} => client.got = client.x
    /\ client.pc = "got_json" =>
          /\ resp.json = client.body
          /\ resp.checksum = checksum[client.id]
          /\ resp.checksum = client.c
\* reached: a tar uploaded in the deferred flow after earlier requests, fetched
\* back with its json
C7_Witness ==
    /\ client.pc = "got_json"
    /\ client.deferred /\ IsTar(client.x)
    /\ client.got = client.x /\ resp.json = client.body
    /\ nreq > 0

\* C8: an accepted PUT json leaves the mark present, the json equal to the body,
\* the checksum equal to the header value (absent without a header), and the
\* ancestry equal to the image id followed by the parent's stored ancestry.
C8_AcceptedPutJsonResets ==
    [][(Answers("put_image_json") /\ resp'.status = 200) =>
         LET i == req'.id IN
         \A g \in BOOLEAN, b \in JsonBodies(i) :
            \A h \in JsonHeaders(i, b) :
               put_image_json(i, b, h, g)
               => /\ mark'[i]
                  /\ json'[i] = b
                  /\ checksum'[i] = h
                  /\ ancestry'[i] = IF b.parent = 0 THEN <<i>>
                                    ELSE <<i>> \o ancestry[b.parent]]_vars
\* reached: a retry with a parent and no header was accepted over an earlier
\* attempt's layer
C8_Witness ==
    /\ req.op = "put_image_json" /\ resp.status = 200
    /\ json[req.id].parent # 0
    /\ layer[req.id] # NoLayer
    /\ checksum[req.id] = NoChecksum
    /\ mark[req.id]
    /\ Len(ancestry[req.id]) >= 2

\* C9: an admitted PUT layer that finds no stored checksum answers 200, leaves
\* the mark as it was and leaves in the session exactly the digests of the upload.
C9_DeferredLayerKeepsMark ==
    [][(Answers("put_image_layer") /\ LayerAdmitted(req'.id)
          /\ checksum[req'.id] = NoChecksum) =>
         LET s == req'.s
             i == req'.id
         IN  \A x \in Layers :
                put_image_layer(s, i, x)
                => /\ resp'.status = 200
                   /\ mark'[i] = mark[i]
                   /\ session'[s] = Digests(json[i], x)]_vars
\* reached: a tar was uploaded without a stored checksum; the image is still
\* marked and the session holds both digests
C9_Witness ==
    /\ req.op = "put_image_layer" /\ resp.status = 200
    /\ mark[req.id] /\ checksum[req.id] = NoChecksum
    /\ IsTar(layer[req.id])
    /\ session[req.s] = Digests(json[req.id], layer[req.id])
    /\ Cardinality(session[req.s]) = 2

\* C10: while the session holds candidates and the image is marked with its json
\* stored, a PUT checksum carrying one of the candidates succeeds and removes
\* the mark; one carrying anything else keeps the mark, the candidates and the
\* json, so that a later matching request still succeeds.
C10_MatchingChecksumSucceeds ==
    [][(Answers("put_image_checksum") /\ session[req'.s] # {}
          /\ mark[req'.id] /\ json[req'.id] # NoJson) =>
         LET s == req'.s
             i == req'.id
         IN  \A h \in Headers(json[i]) \cup session[s] :
                put_image_checksum(s, i, h)
                => IF h \in session[s]
                   THEN resp'.status = 200 /\ ~mark'[i] /\ checksum'[i] = h
                   ELSE /\ resp'.status >= 400 /\ mark'[i]
                        /\ session'[s] = session[s] /\ json'[i] = json[i]]_vars
\* reached: a PUT checksum succeeded after a mismatching value had been stored
\* by an earlier one
C10_Witness ==
    /\ req.op = "put_image_checksum" /\ resp.status = 200
    /\ ~mark[req.id]
    /\ checksum[req.id] \in session[req.s]
    /\ layer[req.id] # NoLayer

\* C11: every stored ancestry starts with the image's own id and follows the
\* parents declared in the stored jsons: the json of each entry declares the
\* next entry as its parent, and the json of the last entry declares none.
C11_AncestryFollowsParents ==
    \A i \in Images :
       ancestry[i] # <<>> =>
          /\ ancestry[i][1] = i
          /\ \A k \in 1..Len(ancestry[i]) :
                json[ancestry[i][k]].parent =
                   IF k < Len(ancestry[i]) THEN ancestry[i][k + 1] ELSE 0

\* C12: every stored diff is what the diff engine computes now from the image's
\* stored ancestry and the stored inventories of the image and its ancestors.
C12_StoredDiffIsCurrent ==
    \A i \in Images :
       diff[i] # <<>> =>
          LET r == compute_image_diff(ancestry[i], files, layer, i)
          IN  r.err = "" /\ r.out = diff[i]

\* C16: an image has a stored diff only if its ancestry is stored and a files
\* inventory is stored for the image and for every id of its ancestry.
C16_DiffOnlyWithInventories ==
    \A i \in Images :
       diff[i] # <<>> =>
          /\ ancestry[i] # <<>>
          /\ files[i] # <<>>
          /\ \A k \in 1..Len(ancestry[i]) : files[ancestry[i][k]] # <<>>

\* C13: no two workers are computing the diff of one layer id at the same
\* time: of the workers that popped one id, only the holder of its lock gets
\* past the lock, also when the lock expires after 5 minutes.
C13_OneWorkerPerId ==
    \A w1, w2 \in Workers :
       (w1 # w2 /\ workers[w1].pc = "compute" /\ workers[w2].pc = "compute")
          => workers[w1].id # workers[w2].id

\* The paths an inventory lists.
Paths(inv) == {inv[k][1] : k \in 1..Len(inv)}
\* A finished run of the engine and its result.
EngineDone == probe.fn = "diff" /\ probe.done /\ probe.out # <<>>

\* C14: in every diff the engine computes, the key sets of deleted, changed
\* and created are pairwise disjoint and their union is the set of paths of
\* the top layer's inventory, whatever the ancestors (none included).
C14_DiffPartitionsTopPaths ==
    (probe.fn = "diff" /\ probe.done) =>
       /\ probe.out # <<>>
       /\ LET d == probe.out[1]
              De == DOMAIN d.deleted
              Ch == DOMAIN d.changed
              Cr == DOMAIN d.created
          IN  /\ De \cap Ch = {} /\ De \cap Cr = {} /\ Ch \cap Cr = {}
              /\ De \cup Ch \cup Cr = Paths(probe.inventories[1])
\* A run with no ancestor on a top layer that marks a path deleted.
C14_Witness ==
    /\ EngineDone
    /\ Len(probe.inventories) = 1
    /\ \E k \in 1..Len(probe.inventories[1]) : probe.inventories[1][k][3]

\* C15: a top-layer path not marked deleted is classified by the newest
\* ancestor whose inventory lists it: changed if that entry is not marked
\* deleted, created if it is, created if no ancestor lists the path.
C15_NewestAncestorDecides ==
    (probe.fn = "diff" /\ probe.done) =>
       /\ probe.out # <<>>
       /\ LET invs == probe.inventories
              top == _get_file_info_map(invs[1])
          IN  \A p \in DOMAIN top :
                 ~top[p][2] =>
                    LET ks == {k \in 2..Len(invs) : p \in Paths(invs[k])}
                    IN  IF ks = {} THEN p \in DOMAIN probe.out[1].created
                        ELSE LET k == CHOOSE k \in ks : \A n \in ks : k <= n
                             IN  IF _get_file_info_map(invs[k])[p][2]
                                 THEN p \in DOMAIN probe.out[1].created
                                 ELSE p \in DOMAIN probe.out[1].changed
\* A run where the newest ancestor listing a path and an older one disagree.
C15_Witness ==
    /\ EngineDone
    /\ Len(probe.inventories) >= 3
    /\ \E p \in DOMAIN _get_file_info_map(probe.inventories[1]) :
          /\ ~_get_file_info_map(probe.inventories[1])[p][2]
          /\ p \in Paths(probe.inventories[2])
          /\ p \in Paths(probe.inventories[3])
          /\ _get_file_info_map(probe.inventories[2])[p][2]
               # _get_file_info_map(probe.inventories[3])[p][2]

\* C17: GET diff computes and writes nothing: every blob of the store is as it
\* was; answered from the cache it returns the stored diff and leaves the
\* queue alone; on a miss it appends the image id to the queue once and
\* returns an empty body; a refused request leaves the queue alone too.
C17_GetDiffOnlyEnqueues ==
    [][Answers("get_image_diff") =>
         /\ UNCHANGED <<json, layer, checksum, ancestry, files, diff, mark, session>>
         /\ IF resp'.status # 200 THEN diff_queue' = diff_queue /\ resp'.diff = <<>>
            ELSE IF diff[req'.id] # <<>>
                 THEN resp'.diff = diff[req'.id] /\ diff_queue' = diff_queue
                 ELSE resp'.diff = <<>> /\ diff_queue' = Append(diff_queue, req'.id)]_vars
\* GET diff was answered from the cache.
C17_Witness ==
    req.op = "get_image_diff" /\ resp.status = 200 /\ resp.diff # <<>>

\* C18: after a PUT layer that stored bytes whose inventory extraction failed,
\* no files inventory is cached for the image.
C18_FailedExtractionLeavesNoInventory ==
    [][(/\ Answers("put_image_layer")
        /\ LayerAdmitted(req'.id)
        /\ files_from_fobj_raises(layer'[req'.id]))
         => files'[req'.id] = <<>>]_vars

\* Every stored json that declares a parent has that parent's json stored.
ParentsStored ==
    \A i \in Images :
       (json[i] # NoJson /\ json[i].parent # 0) => json[json[i].parent] # NoJson

\* C19: after every step each stored json that declares a parent has the
\* parent's json stored; no step removes a stored json; a PUT json refused for
\* its parent leaves mark, json and ancestry as they were, and a PUT json that
\* stores a json naming a parent found the parent's json stored.
C19_ParentJsonStored ==
    [][/\ ParentsStored'
       /\ \A i \in Images : json[i] # NoJson => json'[i] # NoJson
       /\ Answers("put_image_json") =>
            /\ resp'.msg = "Image depends on a non existing parent"
                 => UNCHANGED <<mark, json, ancestry>>
            /\ (json' # json /\ json'[req'.id].parent # 0)
                 => json[json'[req'.id].parent] # NoJson]_vars
\* A PUT json was refused for its parent while a json with a parent is stored.
C19_Witness ==
    /\ req.op = "put_image_json"
    /\ resp.msg = "Image depends on a non existing parent"
    /\ \E i \in Images : json[i] # NoJson /\ json[i].parent # 0

\* s holds p as a run of consecutive characters.
Contains(s, p) ==
    \E k \in 1..(Len(s) - Len(p) + 1) : SubSeq(s, k, k + Len(p) - 1) = p

\* C20: every entry the archive reader produces has a path that begins with
\* "/", holds no "/.wh." and a type among f, d, l, s, c, b.
C20_InventoryEntriesWellFormed ==
    (probe.fn = "reader" /\ probe.done) =>
       \A k \in 1..Len(probe.out) :
          /\ startswith(probe.out[k][1], <<"/">>)
          /\ ~Contains(probe.out[k][1], Whiteout)
          /\ probe.out[k][2] \in {"f", "d", "l", "s", "c", "b"}

\* The name "./.wh." that starts every whiteout member.
DotWhiteout == <<".", "/", ".", "w", "h", ".">>

\* C21: a member named "./.wh." followed by a non-empty name yields one entry,
\* of path "/" followed by that name and marked deleted; the member named
\* "./.wh." alone yields no entry.
C21_WhiteoutNormalization ==
    (/\ probe.fn = "reader" /\ probe.done /\ probe.err = ""
     /\ startswith(probe.tar_info.name, DotWhiteout))
       => LET name == probe.tar_info.name
              rest == SubSeq(name, Len(DotWhiteout) + 1, Len(name))
          IN  IF rest = <<>> THEN probe.out = <<>>
              ELSE /\ Len(probe.out) = 1
                   /\ probe.out[1][1] = <<"/">> \o rest
                   /\ probe.out[1][3]

\* C22: every path the top layer's inventory marks deleted is a key of the
\* diff's deleted map and of neither created nor changed, whatever the number
\* of ancestors.
C22_WhiteoutsAreDeleted ==
    (probe.fn = "diff" /\ probe.done /\ probe.out # <<>>) =>
       LET top == _get_file_info_map(probe.inventories[1])
       IN  \A p \in DOMAIN top :
              top[p][2] =>
                 /\ p \in DOMAIN probe.out[1].deleted
                 /\ p \notin DOMAIN probe.out[1].created
                 /\ p \notin DOMAIN probe.out[1].changed

\* C23: a stored files inventory is the inventory of the layer bytes stored
\* for the same image.
C23_InventoryOfStoredLayer ==
    \A i \in Images :
       files[i] # <<>> =>
          /\ layer[i] # NoLayer
          /\ ~files_from_fobj_raises(layer[i])
          /\ files[i] = <<_get_image_files_from_fobj(layer[i])>>

\* The image is finalized, its ancestry is stored and the layer of every image
\* on it is stored and can be read as a tar.
DiffComputable(i) ==
    /\ Finalized(i)
    /\ ancestry[i] # <<>>
    /\ \A k \in 1..Len(ancestry[i]) :
          /\ layer[ancestry[i][k]] # NoLayer
          /\ ~files_from_fobj_raises(layer[ancestry[i][k]])
\* GET diff has just returned a diff.
DiffServed(i) ==
    /\ req.op = "get_image_diff" /\ req.id = i
    /\ resp.status = 200 /\ resp.diff # <<>>

====
